---- MODULE Spec2Model ----
(***************************************************************************)
(* The truncated-backpropagation training loop of rnnTF5-1.py: the echo    *)
(* data generator, the chunk slicing, the recurrent state carried from one *)
(* session run to the next, the loss history and the plotting schedule.    *)
(*                                                                         *)
(* Tensors are abstracted to residues modulo NumVals: the arithmetic of    *)
(* the LSTM cells, the softmax and Adagrad is TensorFlow's, not this       *)
(* file's, and is stood in for by deterministic functions of the same      *)
(* arguments.  Which value flows where (the feed, the fetch, the layer and *)
(* component order, the graph's edges) is taken from the source.           *)
(***************************************************************************)
EXTENDS Integers, Sequences, FiniteSets

\* ---------------------------------------------------------------- bounds
MaxTotal == 5       \* total_series_length ranges over 1..MaxTotal
MaxDraw == 2        \* every binary series is drawn up to this length
MaxBatch == 2       \* batch_size ranges over 1..MaxBatch
MaxChunk == 2       \* truncated_backprop_length ranges over 1..MaxChunk
MaxLag == 1         \* echo_step ranges over 0..MaxLag
NumEpochs == 2      \* num_epochs (100 in the source)
NumVals == 3        \* abstract tensor values are 0..NumVals-1
MaxParam == 1       \* the initial trainable variables range over 0..MaxParam
LongTotal == 201    \* one long series, so that batch_idx passes PlotEvery twice

\* ------------------------------------------------------ program constants
num_layers == 3
PlotEvery == 100
ExampleTotal == 50000
ExampleBatch == 5
ExampleChunk == 15

VARIABLES
    total_series_length, truncated_backprop_length, batch_size, echo_step,
    num_epochs,
    pc,               \* position of the script's main loop
    epoch_idx, batch_idx,
    x, y,             \* the epoch's grids, a sequence of rows
    batchX, batchY,   \* the current chunk
    _current_state,   \* the held state, indexed [layer][1..2]
    fed,              \* rnn_tuple_state as the last run saw it
    out,              \* current_state as the last run produced it
    prev_out,         \* current_state of the run before the last
    params,           \* the trainable variables
    opt_steps,        \* optimizer steps taken
    grad_runs,        \* the runs whose nodes the last backward pass traversed
    _total_loss, _predictions_series,
    loss_list,
    gen_calls,        \* calls of generateData
    visited,          \* the (epoch_idx, batch_idx) pairs run, in order
    cols,             \* the columns sliced in this epoch, in order
    plots             \* the calls of plot, in order

hyper == <<total_series_length, truncated_backprop_length, batch_size, echo_step,
           num_epochs>>
vars == <<total_series_length, truncated_backprop_length, batch_size, echo_step,
          num_epochs, pc, epoch_idx, batch_idx, x, y, batchX, batchY,
          _current_state, fed, out, prev_out, params, opt_steps, grad_runs,
          _total_loss, _predictions_series, loss_list, gen_calls, visited,
          cols, plots>>

Min(a, b) == IF a < b THEN a ELSE b
Layers == 1..num_layers

\* ------------------------------------------------------------ line 13
row_length == total_series_length \div batch_size

CeilBatches(total, batch, chunk) == ((total \div batch) + chunk - 1) \div chunk

\* total_series_length//batch_size//truncated_backprop_length
FloorBatches(total, batch, chunk) == (total \div batch) \div chunk

num_batches == FloorBatches(total_series_length, batch_size, truncated_backprop_length)

\* ------------------------------------------------------------ generateData
\* np.random.choice(2, n): every binary series up to MaxDraw, three draws beyond.
Samples(n) ==
    IF n <= MaxDraw
    THEN [1..n -> {0, 1}]
    ELSE {[i \in 1..n |-> 1], [i \in 1..n |-> i % 2], [i \in 1..n |-> IF i % 3 = 0 THEN 1 ELSE 0]}

RollLeft(s, k) == [i \in 1..Len(s) |-> s[((i - 1 + k) % Len(s)) + 1]]

\* np.roll(s, k): the element at i moves to (i + k) mod n.
Roll(s, k) == [i \in 1..Len(s) |-> s[((i - 1 - k) % Len(s)) + 1]]

\* y[0:k] = 0; a slice assignment stops at the end of the array.
ZeroHead(s, k) == [i \in 1..Len(s) |-> IF i <= k THEN 0 ELSE s[i]]

\* s.reshape((rows, -1)) raises unless rows divides the length.
ReshapeOK(n, rows) == n % rows = 0

\* Row-major: the first index changes slowest.
Reshape(s, rows) ==
    LET w == Len(s) \div rows
    IN  [r \in 1..rows |-> [c \in 1..w |-> s[(r - 1) * w + c]]]

EchoOf(s, k) == ZeroHead(Roll(s, k), k)

\* ------------------------------------------------------------ slicing
StartIdxOverlap(b) == b * (truncated_backprop_length - 1)

StartIdx(b) == b * truncated_backprop_length

EndIdx(s) == s + truncated_backprop_length

\* grid[:, s:e] with 0-based s, e exclusive; the slice stops at the row's end.
SliceCols(grid, s, e) ==
    [r \in 1..Len(grid) |-> SubSeq(grid[r], s + 1, Min(e, Len(grid[r])))]

ColRange(grid, s, e) ==
    LET w == IF Len(grid) = 0 THEN 0 ELSE Len(grid[1])
    IN  [i \in 1..(IF Min(e, w) > s THEN Min(e, w) - s ELSE 0) |-> s + i - 1]

\* ------------------------------------------------------------ the graph
\* The value a later run could reach back through, were it wired into the graph.
CarriedNode == "previous_run.current_state"

InputsChained(n) ==
    CASE n = "init_state" -> {CarriedNode}
      [] n = "state_per_layer_list" -> {"init_state"}
      [] n = "rnn_tuple_state" -> {"state_per_layer_list"}
      [] n = "inputs_series" -> {"batchX_placeholder"}
      [] n = "labels_series" -> {"batchY_placeholder"}
      [] n = "states_series" -> {"cell", "batchX_placeholder", "rnn_tuple_state"}
      [] n = "current_state" -> {"cell", "batchX_placeholder", "rnn_tuple_state"}
      [] n = "logits_series" -> {"states_series", "W2", "b2"}
      [] n = "predictions_series" -> {"logits_series"}
      [] n = "losses" -> {"logits_series", "labels_series"}
      [] n = "total_loss" -> {"losses"}
      [] OTHER -> {}

\* The data edges into each node of the graph built at lines 26-66.  The
\* placeholders and the variables are leaves.
Inputs(n) ==
    CASE n = "state_per_layer_list" -> {"init_state"}
      [] n = "rnn_tuple_state" -> {"state_per_layer_list"}
      [] n = "inputs_series" -> {"batchX_placeholder"}
      [] n = "labels_series" -> {"batchY_placeholder"}
      [] n = "states_series" -> {"cell", "batchX_placeholder", "rnn_tuple_state"}
      [] n = "current_state" -> {"cell", "batchX_placeholder", "rnn_tuple_state"}
      [] n = "logits_series" -> {"states_series", "W2", "b2"}
      [] n = "predictions_series" -> {"logits_series"}
      [] n = "losses" -> {"logits_series", "labels_series"}
      [] n = "total_loss" -> {"losses"}
      [] OTHER -> {}

RECURSIVE Ancestors(_)
Ancestors(n) == {n} \cup UNION {Ancestors(m) : m \in Inputs(n)}

\* minimize(total_loss): the backward pass walks total_loss's ancestors.
GradNodes == Ancestors("total_loss")

\* ------------------------------------------------------------ the state
\* np.zeros((num_layers, 2, batch_size, state_size))
ZeroState == [l \in Layers |-> <<0, 0>>]

StateTupleSwapped(arr) == [l \in Layers |-> [c |-> arr[l][2], h |-> arr[l][1]]]

\* LSTMStateTuple(state_per_layer_list[idx][0], state_per_layer_list[idx][1]):
\* the tuple's fields are (c, h) in this order.
StateTuple(arr) == [l \in Layers |-> [c |-> arr[l][1], h |-> arr[l][2]]]

\* The fetched tuple of LSTMStateTuple(c, h), as the array the feed makes of it.
AsArray(tup) == [l \in Layers |-> <<tup[l].c, tup[l].h>>]

\* ------------------------------------------------------------ numerics
RECURSIVE WeighedSum(_, _)
WeighedSum(s, i) == IF i > Len(s) THEN 0 ELSE i * s[i] + WeighedSum(s, i + 1)

RECURSIVE GridSum(_, _)
GridSum(g, r) == IF r > Len(g) THEN 0 ELSE r * WeighedSum(g[r], 1) + GridSum(g, r + 1)

Digest(g) == GridSum(g, 1) % NumVals

\* dynamic_rnn over the stacked cells: layer l reads layer l-1's hidden output
\* and its own incoming (c, h); the result is each layer's outgoing (c, h).
CellStack(p, bx, st) ==
    LET nw[l \in Layers] ==
            LET inp == IF l = 1 THEN Digest(bx) ELSE nw[l - 1].h
                c2 == (st[l].c + inp + p) % NumVals
            IN  [c |-> c2, h |-> (st[l].h + c2 + l) % NumVals]
    IN  nw

Logits(top, p) == (top + p) % NumVals

Loss(logits, by) == (logits + Digest(by)) % NumVals

Adagrad(p, loss) == (p + loss + 1) % NumVals

\* ------------------------------------------------------------ the script
SmallConfigs ==
    [total : 1..MaxTotal, batch : 1..MaxBatch, chunk : 1..MaxChunk, lag : 0..MaxLag]

LongConfig == [total |-> LongTotal, batch |-> 1, chunk |-> 1, lag |-> 1]

\* Lines 6-14, 95 and 99: the hyperparameters, the initialised variables and
\* the empty loss list.  Values the script has not assigned yet are <<>> or 0.
Init ==
    /\ \E cfg \in SmallConfigs \cup {LongConfig} :
          /\ total_series_length = cfg.total
          /\ batch_size = cfg.batch
          /\ truncated_backprop_length = cfg.chunk
          /\ echo_step = cfg.lag
    /\ num_epochs = NumEpochs
    /\ params \in 0..MaxParam
    /\ pc = "epoch"
    /\ epoch_idx = 0
    /\ batch_idx = 0
    /\ x = <<>> /\ y = <<>> /\ batchX = <<>> /\ batchY = <<>>
    /\ _current_state = <<>> /\ fed = <<>> /\ out = <<>> /\ prev_out = <<>>
    /\ opt_steps = 0
    /\ grad_runs = {}
    /\ _total_loss = 0 /\ _predictions_series = 0
    /\ loss_list = <<>>
    /\ gen_calls = 0
    /\ visited = <<>> /\ cols = <<>> /\ plots = <<>>

RegenerateOnce ==
    IF gen_calls = 0
    THEN /\ \E s \in Samples(total_series_length) :
              /\ x' = Reshape(s, batch_size)
              /\ y' = Reshape(EchoOf(s, echo_step), batch_size)
         /\ gen_calls' = gen_calls + 1
    ELSE UNCHANGED <<x, y, gen_calls>>

\* x,y = generateData()
Regenerate ==
    /\ \E s \in Samples(total_series_length) :
          /\ x' = Reshape(s, batch_size)
          /\ y' = Reshape(EchoOf(s, echo_step), batch_size)
    /\ gen_calls' = gen_calls + 1

KeepState == _current_state' = IF epoch_idx = 0 THEN ZeroState ELSE _current_state

\* _current_state = np.zeros(...)
ResetState == _current_state' = ZeroState

\* for epoch_idx in range(num_epochs): the body up to the inner loop.
EpochBegin ==
    /\ pc = "epoch"
    /\ epoch_idx < num_epochs
    /\ ReshapeOK(total_series_length, batch_size)
    /\ Regenerate
    /\ ResetState
    /\ batch_idx' = 0
    /\ cols' = <<>>
    /\ pc' = "batch"
    /\ UNCHANGED <<hyper, epoch_idx, batchX, batchY, fed, out, prev_out, params,
                   opt_steps, grad_runs, _total_loss, _predictions_series,
                   loss_list, visited, plots>>

\* generateData raises at the reshape: the script ends with the traceback.
GenerateFail ==
    /\ pc = "epoch"
    /\ epoch_idx < num_epochs
    /\ ~ReshapeOK(total_series_length, batch_size)
    /\ gen_calls' = gen_calls + 1
    /\ pc' = "failed"
    /\ UNCHANGED <<hyper, epoch_idx, batch_idx, x, y, batchX, batchY,
                   _current_state, fed, out, prev_out, params, opt_steps,
                   grad_runs, _total_loss, _predictions_series, loss_list,
                   visited, cols, plots>>

\* The epoch loop is exhausted.
Finish ==
    /\ pc = "epoch"
    /\ epoch_idx >= num_epochs
    /\ pc' = "done"
    /\ UNCHANGED <<hyper, epoch_idx, batch_idx, x, y, batchX, batchY,
                   _current_state, fed, out, prev_out, params, opt_steps,
                   grad_runs, _total_loss, _predictions_series, loss_list,
                   gen_calls, visited, cols, plots>>

\* Lines 108-120: the slices and the session run, whose results are assigned
\* when it returns.
SessRun ==
    /\ pc = "batch"
    /\ batch_idx < num_batches
    /\ LET start_idx == StartIdx(batch_idx)
           end_idx == EndIdx(start_idx)
           bx == SliceCols(x, start_idx, end_idx)
           by == SliceCols(y, start_idx, end_idx)
           tup == StateTuple(_current_state)
           res == CellStack(params, bx, tup)
           logits == Logits(res[num_layers].h, params)
           loss == Loss(logits, by)
       IN  /\ batchX' = bx
           /\ batchY' = by
           /\ fed' = tup
           /\ out' = res
           /\ prev_out' = out
           /\ _current_state' = AsArray(res)
           /\ _total_loss' = loss
           /\ _predictions_series' = logits
           /\ params' = Adagrad(params, loss)
           /\ cols' = cols \o ColRange(x, start_idx, end_idx)
    /\ opt_steps' = opt_steps + 1
    /\ grad_runs' = {<<epoch_idx, batch_idx>>}
                      \cup (IF CarriedNode \in GradNodes /\ batch_idx > 0
                            THEN grad_runs ELSE {})
    /\ visited' = Append(visited, <<epoch_idx, batch_idx>>)
    /\ pc' = "append"
    /\ UNCHANGED <<hyper, epoch_idx, batch_idx, x, y, loss_list, gen_calls, plots>>

\* The inner loop is exhausted: on to the next epoch.
EpochEnd ==
    /\ pc = "batch"
    /\ batch_idx >= num_batches
    /\ epoch_idx' = epoch_idx + 1
    /\ pc' = "epoch"
    /\ UNCHANGED <<hyper, batch_idx, x, y, batchX, batchY, _current_state, fed,
                   out, prev_out, params, opt_steps, grad_runs, _total_loss,
                   _predictions_series, loss_list, gen_calls, visited, cols,
                   plots>>

OverwriteLoss == loss_list' = <<_total_loss>>

\* loss_list.append(_total_loss)
AppendLoss == loss_list' = Append(loss_list, _total_loss)

AppendStep ==
    /\ pc = "append"
    /\ AppendLoss
    /\ pc' = "check"
    /\ UNCHANGED <<hyper, epoch_idx, batch_idx, x, y, batchX, batchY,
                   _current_state, fed, out, prev_out, params, opt_steps,
                   grad_runs, _total_loss, _predictions_series, gen_calls,
                   visited, cols, plots>>

PlotDueFirstOnly(b) == b = 0

\* if batch_idx%100 == 0
PlotDue(b) == b % PlotEvery = 0

SkipBatch == batch_idx' = batch_idx + 2

\* The inner for statement takes the next index.
NextBatch == batch_idx' = batch_idx + 1

\* plot(loss_list, _predictions_series, batchX, batchY): it reads its
\* arguments and draws; batchY * 0.5 and the like are new arrays.
PlotCall ==
    /\ plots' = Append(plots, [epoch |-> epoch_idx,
                               batch |-> batch_idx,
                               steps |-> opt_steps,
                               hist_len |-> Len(loss_list),
                               hist_last |-> IF loss_list = <<>> THEN -1
                                             ELSE loss_list[Len(loss_list)],
                               predictions |-> _predictions_series,
                               input |-> batchX,
                               echo |-> batchY])
    /\ UNCHANGED <<x, y, batchX, batchY, loss_list, _predictions_series>>

PlotStep ==
    /\ pc = "check"
    /\ PlotDue(batch_idx)
    /\ PlotCall
    /\ NextBatch
    /\ pc' = "batch"
    /\ UNCHANGED <<hyper, epoch_idx, _current_state, fed, out, prev_out, params,
                   opt_steps, grad_runs, _total_loss, gen_calls, visited, cols>>

SkipPlot ==
    /\ pc = "check"
    /\ ~PlotDue(batch_idx)
    /\ NextBatch
    /\ pc' = "batch"
    /\ UNCHANGED <<hyper, epoch_idx, x, y, batchX, batchY, _current_state, fed,
                   out, prev_out, params, opt_steps, grad_runs, _total_loss,
                   _predictions_series, loss_list, gen_calls, visited, cols,
                   plots>>

Next ==
    \/ EpochBegin
    \/ GenerateFail
    \/ Finish
    \/ SessRun
    \/ EpochEnd
    \/ AppendStep
    \/ PlotStep
    \/ SkipPlot

Spec == Init /\ [][Next]_vars

\* ------------------------------------------------------------ properties
InLoop == pc \in {"batch", "append", "check"}
JustRan == pc \in {"append", "check"}
EpochOver == pc = "batch" /\ batch_idx >= num_batches
Divides(d, n) == n % d = 0
Iota(n) == [i \in 1..n |-> i - 1]
\* The value at 0-based flat position i of a grid read in row-major order.
GridAt(g, i) == g[(i \div row_length) + 1][(i % row_length) + 1]
ZeroTuple == [l \in Layers |-> [c |-> 0, h |-> 0]]

\* C1: in every run after the first of an epoch, each layer's c and h fed in
\* are the c and h the previous run returned for that layer, and between the
\* runs (plot call or not) the held state is that returned state.
C1_StateContinuity ==
    /\ (pc = "append" /\ batch_idx >= 1) =>
          \A l \in Layers : fed[l].c = prev_out[l].c /\ fed[l].h = prev_out[l].h
    /\ (JustRan \/ (pc = "batch" /\ batch_idx >= 1)) =>
          \A l \in Layers : _current_state[l][1] = out[l].c
                            /\ _current_state[l][2] = out[l].h

C1_Witness ==
    /\ pc = "append" /\ batch_idx = 1 /\ Len(plots) >= 1
    /\ fed = prev_out
    /\ \E l \in Layers : fed[l].c # fed[l].h
    /\ \E l, m \in Layers : fed[l] # fed[m]

\* C2: the state fed into the first run of every epoch is zero in every layer
\* and both components, whatever the previous epoch left.
C2_StateReset ==
    /\ (pc = "append" /\ batch_idx = 0) =>
          \A l \in Layers : fed[l].c = 0 /\ fed[l].h = 0
    /\ (pc = "batch" /\ batch_idx = 0) =>
          \A l \in Layers : _current_state[l][1] = 0 /\ _current_state[l][2] = 0

C2_Witness ==
    /\ pc = "append" /\ batch_idx = 0 /\ epoch_idx = 1
    /\ fed = ZeroTuple
    /\ prev_out # <<>> /\ \E l \in Layers : prev_out[l].c # 0 /\ prev_out[l].h # 0

C5_EchoCorrectness ==
    (pc = "batch" /\ batch_idx = 0) =>
       /\ Len(x) = batch_size /\ Len(y) = batch_size
       /\ \A r \in 1..batch_size : Len(x[r]) = row_length /\ Len(y[r]) = row_length
       /\ \A i \in 0..(total_series_length - 1) :
             GridAt(y, i) = IF i >= echo_step THEN GridAt(x, i - echo_step) ELSE 0

C5_Witness ==
    /\ pc = "batch" /\ batch_idx = 0 /\ batch_size = 2 /\ echo_step = 1 /\ row_length >= 1
    /\ y[2][1] = 1 /\ x[1][row_length] = 1 /\ y[1][1] = 0 /\ x[1][1] = 1

\* C6: the backward pass of a run traverses that run's nodes only: the
\* incoming state is a leaf of the graph that total_loss depends on, with
\* nothing behind it, while its value is the previous run's outgoing state.
C6_TruncatedBackprop ==
    /\ pc = "append" => grad_runs = {<<epoch_idx, batch_idx>>}
    /\ "init_state" \in GradNodes
    /\ (pc = "append" /\ batch_idx >= 1) => fed = prev_out

C6_Witness ==
    /\ pc = "append" /\ batch_idx >= 1
    /\ grad_runs = {<<epoch_idx, batch_idx>>}
    /\ fed # ZeroTuple /\ fed = prev_out

\* C7: the history has one entry per run made, in all epochs together; a
\* step either leaves it alone or appends the run's loss at its end.
C7_LossHistory ==
    /\ [](/\ pc \in {"epoch", "batch", "check", "done"} => Len(loss_list) = Len(visited)
          /\ pc = "append" => Len(loss_list) + 1 = Len(visited))
    /\ [][\/ loss_list' = loss_list
          \/ pc = "append" /\ loss_list' = Append(loss_list, _total_loss)]_vars

C7_Witness ==
    /\ pc = "check" /\ epoch_idx = 1 /\ num_batches >= 2 /\ batch_idx = 1
    /\ Len(loss_list) = num_batches + 2

\* Steps taken per epoch, and the position of the loop counted in steps.
EpochSteps == 3 * num_batches + 2
Rank ==
    CASE pc = "epoch" -> epoch_idx * EpochSteps
      [] pc = "batch" -> epoch_idx * EpochSteps + 3 * batch_idx + 1
      [] pc = "append" -> epoch_idx * EpochSteps + 3 * batch_idx + 2
      [] pc = "check" -> epoch_idx * EpochSteps + 3 * batch_idx + 3
      [] OTHER -> num_epochs * EpochSteps + 1

\* C8: the runs made are (0,0), (0,1), ... in lexicographic order, each
\* batch index of each epoch once; the loop ends only after the last pair;
\* and it does end: until it has ended a step is possible, and every step
\* advances a bounded count.
C8_Traversal ==
    /\ [](/\ \A i \in 1..Len(visited) :
                visited[i] = <<(i - 1) \div num_batches, (i - 1) % num_batches>>
          /\ JustRan => visited[Len(visited)] = <<epoch_idx, batch_idx>>
          /\ pc = "batch" => Len(visited) = epoch_idx * num_batches + batch_idx
          /\ pc = "done" => Len(visited) = num_epochs * num_batches
          /\ pc \in {"done", "failed"} \/ ENABLED Next
          /\ Rank <= num_epochs * EpochSteps + 1)
    /\ [][Rank' > Rank]_vars

C8_Witness ==
    /\ pc = "done" /\ num_batches >= 3 /\ Len(visited) = num_epochs * num_batches
    /\ visited[num_batches + 1] = <<1, 0>>

\* C9: generateData has been called once for each epoch begun; the chunk of
\* a run is the run's columns of that epoch's x and y; and x and y change
\* only where an epoch begins with a new call.
C9_FreshData ==
    /\ [](/\ InLoop => gen_calls = epoch_idx + 1
          /\ pc = "done" => gen_calls = num_epochs
          /\ JustRan =>
                \A r \in 1..batch_size : \A c \in 1..truncated_backprop_length :
                    /\ batchX[r][c] = x[r][batch_idx * truncated_backprop_length + c]
                    /\ batchY[r][c] = y[r][batch_idx * truncated_backprop_length + c])
    /\ [][(x' # x \/ y' # y) => (pc = "epoch" /\ gen_calls' = gen_calls + 1)]_vars

C9_Witness ==
    /\ pc = "batch" /\ epoch_idx = 1 /\ batch_idx >= 1 /\ gen_calls = 2
    /\ Len(plots) >= 2

\* The runs whose plot decision has been taken.
Decided == IF JustRan THEN Len(visited) - 1 ELSE Len(visited)

\* C10: plot is called for exactly the runs whose batch_idx is a multiple of
\* 100; when it is called the run's optimizer step is taken, the held state
\* is the run's outgoing state and the history ends with the run's loss.
C10_PlotSchedule ==
    /\ pc = "append" =>
          opt_steps = Len(loss_list) + 1 /\ _current_state = AsArray(out)
    /\ pc = "check" =>
          /\ opt_steps = Len(loss_list) /\ _current_state = AsArray(out)
          /\ loss_list # <<>> /\ loss_list[Len(loss_list)] = _total_loss
    /\ \A i \in 1..Len(plots) :
          LET ord == plots[i].epoch * num_batches + plots[i].batch + 1
          IN  /\ plots[i].batch % 100 = 0
              /\ plots[i].steps = ord
              /\ plots[i].hist_len = ord
              /\ plots[i].hist_last = loss_list[ord]
    /\ {<<plots[i].epoch, plots[i].batch>> : i \in 1..Len(plots)}
          = {visited[i] : i \in {j \in 1..Decided : visited[j][2] % 100 = 0}}
    /\ Len(plots) = Cardinality({j \in 1..Decided : visited[j][2] % 100 = 0})

C10_Witness ==
    /\ Len(plots) >= 3 /\ plots[2].batch = 100 /\ plots[3].batch = 200
    /\ plots[2].hist_len = 101
====
